---- MODULE Spec2Model ----
(***************************************************************************)
(* Contact-form backend (src/backend/server.js) over its PostgreSQL table  *)
(* (src/postgres/init.sql): the validateContact chain, the routes, the     *)
(* store they query and the connection pool; and the ContactForm web       *)
(* component (src/unnamed/part_000) that posts to it.                      *)
(*                                                                         *)
(* Strings are sequences of one-character strings, so that trimming,       *)
(* lower-casing, splitting and the e-mail rules are computed character by  *)
(* character as the validator library computes them.                       *)
(***************************************************************************)
EXTENDS Integers, Sequences, FiniteSets, TLC

VARIABLES
    contacts,       \* the contacts table: id |-> row
    nextId,         \* next value of the SERIAL sequence behind contacts.id
    now,            \* CURRENT_TIMESTAMP of the store
    NODE_ENV,       \* process.env.NODE_ENV
    ADMIN_API_KEY,  \* process.env.ADMIN_API_KEY
    list,           \* the GET /api/contacts request awaiting its two queries
    res,            \* the response sent last, with the request it answers
    created,        \* history: id |-> the 201 answer and the body submitted
    deleted,        \* history: the ids a DELETE has removed
    retries,        \* let retries: the reconnections scheduled so far
    pools,          \* how many times createPool has run; the last is pool
    timers,         \* the delays of the setTimeout(createPool, ...) not yet fired
    state,          \* ContactForm: this.state
    dom,            \* ContactForm: the fields, the button and the timeouts pending
    fetching        \* ContactForm: the POSTs sent and not yet settled

\* the connection pool's variables and the component's
poolVars == <<retries, pools, timers>>
formVars == <<state, dom, fetching>>

vars == <<contacts, nextId, now, NODE_ENV, ADMIN_API_KEY, list, res, created, deleted,
          poolVars, formVars>>

-----------------------------------------------------------------------------
(* Characters and strings                                                  *)

LowerAlpha == <<"a", "b", "c", "d", "e", "f", "g", "h", "i", "j", "k", "l", "m", "n", "o", "p", "q", "r", "s", "t", "u", "v", "w", "x", "y", "z">>
UpperAlpha == <<"A", "B", "C", "D", "E", "F", "G", "H", "I", "J", "K", "L", "M", "N", "O", "P", "Q", "R", "S", "T", "U", "V", "W", "X", "Y", "Z">>
Digits == {"0", "1", "2", "3", "4", "5", "6", "7", "8", "9"}
Letters == {LowerAlpha[i] : i \in 1..26} \cup {UpperAlpha[i] : i \in 1..26}

\* JavaScript's \s, restricted to the two whitespace characters of the inputs
Whitespace == {" ", "\t"}

Rep(c, n) == [i \in 1..n |-> c]

toLowerChar(c) ==
    IF \E i \in 1..26 : UpperAlpha[i] = c
    THEN LowerAlpha[CHOOSE i \in 1..26 : UpperAlpha[i] = c]
    ELSE c

\* String.prototype.toLowerCase
toLowerCase(s) == [i \in 1..Len(s) |-> toLowerChar(s[i])]

Max(S) == CHOOSE x \in S : \A y \in S : y <= x
Min(S) == CHOOSE x \in S : \A y \in S : x <= y

\* the number of whitespace characters s starts with, and ends with
leading(s) ==
    CHOOSE k \in 0..Len(s) :
        /\ \A i \in 1..k : s[i] \in Whitespace
        /\ k = Len(s) \/ s[k + 1] \notin Whitespace

trailing(s) ==
    CHOOSE k \in 0..Len(s) :
        /\ \A i \in (Len(s) - k + 1)..Len(s) : s[i] \in Whitespace
        /\ k = Len(s) \/ s[Len(s) - k] \notin Whitespace

\* validator.js trim(): rtrim(ltrim(str)), both with the class \s
trim(s) ==
    IF leading(s) = Len(s) THEN <<>>
    ELSE SubSeq(s, leading(s) + 1, Len(s) - trailing(s))

\* String.prototype.split on a one-character separator
RECURSIVE split(_, _)
split(s, c) ==
    LET hits == {i \in 1..Len(s) : s[i] = c}
    IN IF hits = {} THEN <<s>>
       ELSE <<SubSeq(s, 1, Min(hits) - 1)>> \o split(SubSeq(s, Min(hits) + 1, Len(s)), c)

\* Array.prototype.join with a one-character separator
RECURSIVE join(_, _)
join(parts, c) ==
    IF parts = <<>> THEN <<>>
    ELSE IF Len(parts) = 1 THEN parts[1]
    ELSE parts[1] \o <<c>> \o join(Tail(parts), c)

-----------------------------------------------------------------------------
(* validator.js, as express-validator's chain calls it with its defaults   *)

\* the nth smallest index of a set of indexes
nth(I, k) == CHOOSE i \in I : Cardinality({j \in I : j <= i}) = k

\* the characters of s at the indexes I, in order
pick(s, I) == [k \in 1..Cardinality(I) |-> s[nth(I, k)]]

\* notEmpty(): !isEmpty(str), isEmpty being str.length === 0
notEmpty(s) == Len(s) # 0

\* isLength({min, max}): min <= str.length <= max
isLength(s, min, max) == Len(s) >= min /\ Len(s) <= max

\* the punctuation an unquoted local part may hold (the backquote left out)
UserPunct == {"!", "#", "$", "%", "&", "'", "*", "+", "-", "/", "=", "?", "^", "_", "{", "|", "}", "~"}

\* emailUserUtf8Part: one or more letters, digits or UserPunct characters
emailUserPart(s) == Len(s) >= 1 /\ \A i \in 1..Len(s) : s[i] \in Letters \cup Digits \cup UserPunct

\* quotedEmailUser: any run of characters other than the quote and the backslash
quotedEmailUser(s) == \A i \in 1..Len(s) : s[i] \notin {"\"", "\\"}

\* the top-level domain: /^([a-z]{2,}|xn[a-z0-9-]{2,})$/i
isTld(s) ==
    \/ Len(s) >= 2 /\ \A i \in 1..Len(s) : s[i] \in Letters
    \/ /\ Len(s) >= 4
       /\ toLowerCase(SubSeq(s, 1, 2)) = <<"x", "n">>
       /\ \A i \in 3..Len(s) : s[i] \in Letters \cup Digits \cup {"-"}

\* one label of a domain: at most 63 of [a-z0-9-], no hyphen at either end
isLabel(s) ==
    /\ Len(s) >= 1
    /\ Len(s) <= 63
    /\ \A i \in 1..Len(s) : s[i] \in Letters \cup Digits \cup {"-"}
    /\ s[1] # "-"
    /\ s[Len(s)] # "-"

\* isFQDN(domain, {require_tld: true}): at least two labels, an alphabetic tld
isFQDN(s) ==
    LET parts == split(s, ".")
    IN /\ Len(parts) >= 2
       /\ isTld(parts[Len(parts)])
       /\ \A i \in 1..Len(parts) : isLabel(parts[i])

\* str.split('@'): the domain is what follows the last @, the user the rest
emailDomain(s) ==
    LET hits == {i \in 1..Len(s) : s[i] = "@"}
    IN IF hits = {} THEN s ELSE SubSeq(s, Max(hits) + 1, Len(s))

emailUser(s) ==
    LET hits == {i \in 1..Len(s) : s[i] = "@"}
    IN IF hits = {} THEN <<>> ELSE SubSeq(s, 1, Max(hits) - 1)

\* isEmail(str) with the default options
isEmail(s) ==
    LET user == emailUser(s)
        domain == emailDomain(s)
        user_parts == split(user, ".")
    IN /\ Len(s) <= 254
       /\ Len(user) <= 64
       /\ Len(domain) <= 254
       /\ isFQDN(domain)
       /\ IF Len(user) >= 1 /\ user[1] = "\"" /\ user[Len(user)] = "\""
          THEN quotedEmailUser(SubSeq(user, 2, Len(user) - 1))
          ELSE \A i \in 1..Len(user_parts) : emailUserPart(user_parts[i])

gmail_com == <<"g", "m", "a", "i", "l", ".", "c", "o", "m">>
googlemail_com == <<"g", "o", "o", "g", "l", "e", "m", "a", "i", "l", ".", "c", "o", "m">>
yandex_ru == <<"y", "a", "n", "d", "e", "x", ".", "r", "u">>
icloud_domains == {<<"i", "c", "l", "o", "u", "d", ".", "c", "o", "m">>, <<"m", "e", ".", "c", "o", "m">>}
\* of the library's outlook.com, yahoo and yandex lists, the domains below
outlookdotcom_domains == {<<"o", "u", "t", "l", "o", "o", "k", ".", "c", "o", "m">>, <<"h", "o", "t", "m", "a", "i", "l", ".", "c", "o", "m">>, <<"l", "i", "v", "e", ".", "c", "o", "m">>}
yahoo_domains == {<<"y", "a", "h", "o", "o", ".", "c", "o", "m">>, <<"y", "m", "a", "i", "l", ".", "c", "o", "m">>}
yandex_domains == {yandex_ru, <<"y", "a", ".", "r", "u">>, <<"y", "a", "n", "d", "e", "x", ".", "c", "o", "m">>}

\* parts[0].split('+')[0]
removeSubaddress(user) == split(user, "+")[1]

\* parts[0].replace(/\.+/g, dotsReplacer): a dot standing alone is dropped
removeDots(user) ==
    pick(user, {i \in 1..Len(user) :
                  ~ /\ user[i] = "."
                    /\ (i = 1 \/ user[i - 1] # ".")
                    /\ (i = Len(user) \/ user[i + 1] # ".")})

\* yahoo: the text before the last hyphen
removeYahooSubaddress(user) ==
    LET components == split(user, "-")
    IN IF Len(components) > 1
       THEN join(SubSeq(components, 1, Len(components) - 1), "-")
       ELSE components[1]

String(s) == [ok |-> TRUE, str |-> s]
False == [ok |-> FALSE, str |-> <<>>]

\* normalizeEmail(email) with the default options: a string, or false
normalizeEmail(email) ==
    LET user == emailUser(email)
        domain == toLowerCase(emailDomain(email))
    IN IF domain \in {gmail_com, googlemail_com}
       THEN LET u == removeDots(removeSubaddress(user))
            IN IF Len(u) = 0 THEN False
               ELSE String(toLowerCase(u) \o <<"@">> \o gmail_com)
       ELSE IF domain \in icloud_domains \cup outlookdotcom_domains
       THEN LET u == removeSubaddress(user)
            IN IF Len(u) = 0 THEN False
               ELSE String(toLowerCase(u) \o <<"@">> \o domain)
       ELSE IF domain \in yahoo_domains
       THEN LET u == removeYahooSubaddress(user)
            IN IF Len(u) = 0 THEN False
               ELSE String(toLowerCase(u) \o <<"@">> \o domain)
       ELSE IF domain \in yandex_domains
       THEN String(toLowerCase(user) \o <<"@">> \o yandex_ru)
       ELSE String(toLowerCase(user) \o <<"@">> \o domain)

-----------------------------------------------------------------------------
(* validateContact: three chains, then the middleware that answers 400     *)

FieldError(param, msg) == [param |-> param, msg |-> msg]

\* a validator of a chain: its error when the value fails it (no bail)
check(passes, param, msg) == IF passes THEN <<>> ELSE <<FieldError(param, msg)>>

\* nameChain accepting a name of one character
nameChain_min1(raw) ==
    LET v == trim(raw)
    IN [value |-> String(v),
        errors |-> check(notEmpty(v), "name", "Name is required")
                   \o check(isLength(v, 1, 100), "name",
                            "Name must be between 2 and 100 characters")]

\* body('name').trim().notEmpty().isLength({min: 2, max: 100})
nameChain(raw) ==
    LET v == trim(raw)
    IN [value |-> String(v),
        errors |-> check(notEmpty(v), "name", "Name is required")
                   \o check(isLength(v, 2, 100), "name",
                            "Name must be between 2 and 100 characters")]

\* emailChain lower-casing the address instead of normalizing it
emailChain_lowercase(raw) ==
    LET v == trim(raw)
    IN [value |-> String(toLowerCase(v)),
        errors |-> check(notEmpty(v), "email", "Email is required")
                   \o check(isEmail(v), "email",
                            "Please provide a valid email address")]

\* body('email').trim().notEmpty().isEmail().normalizeEmail()
emailChain(raw) ==
    LET v == trim(raw)
    IN [value |-> normalizeEmail(v),
        errors |-> check(notEmpty(v), "email", "Email is required")
                   \o check(isEmail(v), "email",
                            "Please provide a valid email address")]

\* body('message').trim().notEmpty().isLength({min: 10, max: 1000})
messageChain(raw) ==
    LET v == trim(raw)
    IN [value |-> String(v),
        errors |-> check(notEmpty(v), "message", "Message is required")
                   \o check(isLength(v, 10, 1000), "message",
                            "Message must be between 10 and 1000 characters")]

\* validateContact stopping at the first field that fails
validateContact_bail(body) ==
    LET n == nameChain(body.name)
        e == emailChain(body.email)
        m == messageChain(body.message)
    IN [body |-> [name |-> n.value, email |-> e.value, message |-> m.value],
        errors |-> IF n.errors # <<>> THEN n.errors
                   ELSE IF e.errors # <<>> THEN e.errors
                   ELSE m.errors]

\* the chains run in the order of the array; each rewrites its field of
\* req.body and adds its errors to the request's validation result
validateContact(body) ==
    LET n == nameChain(body.name)
        e == emailChain(body.email)
        m == messageChain(body.message)
    IN [body |-> [name |-> n.value, email |-> e.value, message |-> m.value],
        errors |-> n.errors \o e.errors \o m.errors]

-----------------------------------------------------------------------------
(* The store: the contacts table and the queries the routes send it        *)

\* an optional value (a header, a query parameter, an environment variable):
\* <<>> when undefined, <<v>> when set to v
Undefined == <<>>
Some(v) == <<v>>

DigitSeq == <<"0", "1", "2", "3", "4", "5", "6", "7", "8", "9">>

\* a non-negative integer as the text of a path segment
RECURSIVE decimal(_)
decimal(n) ==
    IF n < 10 THEN <<DigitSeq[n + 1]>>
    ELSE decimal(n \div 10) \o <<DigitSeq[(n % 10) + 1]>>

digitValue(c) == (CHOOSE i \in 1..10 : DigitSeq[i] = c) - 1

RECURSIVE parseDigits(_)
parseDigits(s) ==
    IF Len(s) = 1 THEN digitValue(s[1])
    ELSE 10 * parseDigits(SubSeq(s, 1, Len(s) - 1)) + digitValue(s[Len(s)])

\* the store's reading of a text parameter compared with the integer id:
\* a run of digits within int4, anything else is an error
isInteger(s) ==
    /\ Len(s) >= 1
    /\ Len(s) <= 10
    /\ \A i \in 1..Len(s) : s[i] \in Digits
    /\ parseDigits(s) <= 2147483647

StoreError(code, message) == [code |-> code, message |-> message]
Failed(e) == [ok |-> FALSE, error |-> e, rows |-> <<>>]
Rows(rows) == [ok |-> TRUE, error |-> StoreError("", ""), rows |-> rows]

ConnectionLost == StoreError("57P01", "terminating connection due to administrator command")
UniqueViolation == StoreError("23505", "duplicate key value violates unique constraint")
TooLong == StoreError("22001", "value too long for type character varying(100)")
BadInteger == StoreError("22P02", "invalid input syntax for type integer")
NegativeOffset == StoreError("2201X", "OFFSET must not be negative")
BindMismatch == StoreError("08P01", "bind message supplies the wrong number of parameters")

\* what the environment does to one query: it runs, the connection is lost,
\* or (an INSERT only) the store reports a uniqueness violation
QueryFates == {"ok", "lost"}
InsertFates == {"ok", "lost", "unique"}

\* CREATE TABLE contacts: id SERIAL PRIMARY KEY, name VARCHAR(100), email
\* VARCHAR(100), message TEXT, created_at DEFAULT CURRENT_TIMESTAMP
\* (ip_address, user_agent and updated_at are written and never read)
Row(id, name, email, message, created_at) ==
    [id |-> id, name |-> name, email |-> email, message |-> message,
     created_at |-> created_at]

fitsColumns(name, email) == Len(name) <= 100 /\ Len(email) <= 100

\* the sample rows of init.sql: one INSERT, hence one timestamp
SampleData ==
    (1 :> Row(1, <<"J", "o", "h", "n", " ", "D", "o", "e">>, <<"j", "o", "h", "n", "@", "e", "x", "a", "m", "p", "l", "e", ".", "c", "o", "m">>,
              <<"T", "h", "i", "s", " ", "i", "s", " ", "a", " ", "t", "e", "s", "t", " ", "m", "e", "s", "s", "a", "g", "e", " ", "f", "r", "o", "m", " ", "D", "o", "c", "k", "e", "r">>, 0))
    @@ (2 :> Row(2, <<"J", "a", "n", "e", " ", "S", "m", "i", "t", "h">>, <<"j", "a", "n", "e", "@", "e", "x", "a", "m", "p", "l", "e", ".", "c", "o", "m">>,
                 <<"A", "n", "o", "t", "h", "e", "r", " ", "t", "e", "s", "t", " ", "m", "e", "s", "s", "a", "g", "e", " ", "f", "o", "r", " ", "t", "h", "e", " ", "c", "o", "n", "t", "a", "c", "t", " ", "f", "o", "r", "m">>, 0))

EmptyTable == [i \in {} |-> Row(0, <<>>, <<>>, <<>>, 0)]

\* pg's prepareValue: a parameter that is not a string is sent as its text
prepareValue(v) == IF v.ok THEN v.str ELSE <<"f", "a", "l", "s", "e">>

\* an id computed from the rows present: one more than the largest
serial_maxPlusOne(table, sequence) ==
    IF DOMAIN table = {} THEN 1 ELSE Max(DOMAIN table) + 1

\* id SERIAL: the default of id is the sequence's next value, whatever the
\* table holds
serial(table, sequence) == sequence

\* INSERT INTO contacts (...) VALUES ($1, $2, $3, ...) RETURNING id, name,
\* email, created_at
insertContact(table, sequence, at, params, fate) ==
    IF fate = "lost" THEN Failed(ConnectionLost)
    ELSE IF ~fitsColumns(params[1], params[2]) THEN Failed(TooLong)
    ELSE IF fate = "unique" THEN Failed(UniqueViolation)
    ELSE Rows(<<Row(serial(table, sequence), params[1], params[2], params[3], at)>>)

\* the sequence after a failed INSERT: nextval() is not rolled back, so the id is
\* spent when the statement got as far as the row (a uniqueness violation), not
\* spent when it never ran, and either when a value did not fit its column
sequenceAfter(id, error) ==
    IF error = UniqueViolation THEN {id + 1}
    ELSE IF error = TooLong THEN {id, id + 1}
    ELSE {id}

\* a SELECT that ignores its WHERE clause and returns the oldest row
selectById_first(table, params, fate) ==
    IF fate = "lost" THEN Failed(ConnectionLost)
    ELSE IF ~isInteger(params[1]) THEN Failed(BadInteger)
    ELSE IF DOMAIN table # {}
    THEN Rows(<<table[Min(DOMAIN table)]>>)
    ELSE Rows(<<>>)

\* SELECT id, name, email, message, created_at FROM contacts WHERE id = $1
selectById(table, params, fate) ==
    IF fate = "lost" THEN Failed(ConnectionLost)
    ELSE IF ~isInteger(params[1]) THEN Failed(BadInteger)
    ELSE IF parseDigits(params[1]) \in DOMAIN table
    THEN Rows(<<table[parseDigits(params[1])]>>)
    ELSE Rows(<<>>)

\* DELETE FROM contacts WHERE id = $1 RETURNING id, email
deleteById(table, params, fate) ==
    IF fate = "lost" THEN Failed(ConnectionLost)
    ELSE IF ~isInteger(params[1]) THEN Failed(BadInteger)
    ELSE IF parseDigits(params[1]) \in DOMAIN table
    THEN Rows(<<[id |-> parseDigits(params[1]),
                 email |-> table[parseDigits(params[1])].email]>>)
    ELSE Rows(<<>>)

\* a query parameter as the driver sends it: text or a number
Text(s) == [type |-> "text", text |-> s, num |-> 0]
Num(n) == [type |-> "num", text |-> <<>>, num |-> n]

\* one condition of a WHERE clause: column op $placeholder
Condition(column, op, placeholder) ==
    [column |-> column, op |-> op, placeholder |-> placeholder]

\* does the row satisfy the condition, $k being the k-th parameter supplied
satisfies(row, c, params) ==
    LET v == params[c.placeholder]
    IN IF c.column = "email" THEN v.type = "text" /\ row.email = v.text
       ELSE IF c.op = ">=" THEN v.type = "num" /\ row.created_at >= v.num
       ELSE v.type = "num" /\ row.created_at <= v.num

\* the ids of the rows a WHERE clause selects (all of them when it is empty)
matching(table, where, params) ==
    {i \in DOMAIN table : \A k \in 1..Len(where) : satisfies(table[i], where[k], params)}

\* ORDER BY created_at DESC: every order of the ids in which no row comes
\* before a newer one; rows of one timestamp come in any order
RECURSIVE orderings(_, _)
orderings(table, ids) ==
    IF ids = {} THEN {<<>>}
    ELSE UNION {{<<i>> \o rest : rest \in orderings(table, ids \ {i})} :
                i \in {j \in ids : \A k \in ids : table[k].created_at <= table[j].created_at}}

\* the columns the list query selects
listed(row) ==
    [id |-> row.id, name |-> row.name, email |-> row.email, created_at |-> row.created_at]

\* LIMIT and OFFSET: how many of n rows are left after skipping offset of them
\* and keeping at most limit
window(n, offset, limit) ==
    IF n - offset <= 0 THEN 0
    ELSE IF n - offset < limit THEN n - offset
    ELSE limit

\* SELECT id, name, email, created_at FROM contacts [WHERE ...]
\* ORDER BY created_at DESC LIMIT $n+1 OFFSET $n+2, in the order the store chose
selectPage(table, q, order, fate) ==
    IF fate = "lost" THEN Failed(ConnectionLost)
    ELSE IF Len(q.params) # q.offset THEN Failed(BindMismatch)
    ELSE IF q.params[q.offset].num < 0 THEN Failed(NegativeOffset)
    ELSE Rows([k \in 1..window(Len(order), q.params[q.offset].num, q.params[q.limit].num) |->
                   listed(table[order[q.params[q.offset].num + k]])])

\* SELECT COUNT(*) FROM contacts [WHERE ...]
selectCount(table, q, fate) ==
    IF fate = "lost" THEN Failed(ConnectionLost)
    ELSE IF Len(q.params) # Len(q.where) THEN Failed(BindMismatch)
    ELSE Rows(<<[count |-> Cardinality(matching(table, q.where, q.params))]>>)

-----------------------------------------------------------------------------
(* Bounds and inputs                                                       *)

\* the SERIAL sequence is not advanced past MaxId
MaxId == 2
\* CURRENT_TIMESTAMP is not advanced past MaxClock
MaxClock == 1

NameInputs ==
    { <<>>, <<" ">>, <<"J">>, <<"J", "o">>, <<" ", "J", "o">> \o <<"\t">>, <<"J", " ", "o">>,
      Rep("x", 100), <<" ">> \o Rep("x", 100) \o <<"\t">>, Rep("x", 101) }

MessageInputs ==
    { <<>>, <<"s", "h", "o", "r", "t">>, <<"1", "2", "3", "4", "5", "6", "7", "8", "9">>, <<" ", " ", "1", "2", "3", "4", "5", "6", "7", "8", "9", " ">>, <<"0", "1", "2", "3", "4", "5", "6", "7", "8", "9">>,
      Rep("m", 1000), <<"\t">> \o Rep("m", 1000) \o <<" ">>, Rep("m", 1001) }

EmailInputs ==
    { <<>>, <<" ">>, <<"b", "a", "d">>, <<"a", "@", "b", ".", "c", "o">>, <<" ", " ", "F", "o", "o", "@", "E", "X", "A", "M", "P", "L", "E", ".", "c", "o", "m", " ">>, <<"a", "@", "b", ".", "c">>, <<"a", "@", "b", ".", "c", "0">>,
      <<"a", " ", "b", "@", "x", ".", "c", "o">>, <<"a", "@", "b", "@", "c", ".", "c", "o">>, <<"a", "@", "-", "b", ".", "c", "o">>, <<".", "a", "@", "b", ".", "c", "o">>, <<"\"", "a", " ", "b", "\"", "@", "x", ".", "c", "o">>,
      <<"A", ".", "B", "+", "t", "a", "g", "@", "G", "m", "a", "i", "l", ".", "c", "o", "m">>, <<"x", ".", "y", "@", "g", "o", "o", "g", "l", "e", "m", "a", "i", "l", ".", "c", "o", "m">>, <<"+", "t", "@", "g", "m", "a", "i", "l", ".", "c", "o", "m">>,
      <<"M", "e", "+", "x", "@", "O", "u", "t", "l", "o", "o", "k", ".", "c", "o", "m">>, <<"a", "-", "b", "-", "c", "@", "y", "a", "h", "o", "o", ".", "c", "o", "m">>, <<"U", ".", "v", "@", "y", "a", ".", "r", "u">>, <<"a", "+", "b", "@", "i", "c", "l", "o", "u", "d", ".", "c", "o", "m">>,
      <<"a", ".", "b", "+", "c", "@", "x", ".", "c", "o">>,
      Rep("a", 64) \o <<"@">> \o Rep("b", 40) \o <<".", "c", "o">>,
      Rep("a", 65) \o <<"@", "b", ".", "c", "o">> }

\* the bodies submitted to the validator: every combination of the above
ValidateBodies == [name : NameInputs, email : EmailInputs, message : MessageInputs]

Body(name, email, message) == [name |-> name, email |-> email, message |-> message]

\* the bodies submitted while the other routes run
Bodies ==
    { Body(<<"J", "o">>, <<"a", "@", "b", ".", "c", "o">>, <<"0", "1", "2", "3", "4", "5", "6", "7", "8", "9">>),
      Body(<<" ", "A", "n", "n", " ">>, <<"A", ".", "B", "+", "t", "a", "g", "@", "G", "m", "a", "i", "l", ".", "c", "o", "m">>, <<"h", "e", "l", "l", "o", " ", "w", "o", "r", "l", "d">>),
      Body(<<"J">>, <<"b", "a", "d">>, <<"s", "h", "o", "r", "t">>) }

\* req.params.id: the ids the sequence can have handed out, one more, and text
\* that is no integer
IdInputs == {decimal(i) : i \in 1..(MaxId + 1)} \cup {<<"a", "b", "c">>}

\* req.query of the list route: each parameter undefined or set
ListQuery(page, limit, email, startDate, endDate) ==
    [page |-> page, limit |-> limit, email |-> email,
     startDate |-> startDate, endDate |-> endDate]

\* the list requests sent while the other routes run
ListQueries ==
    { ListQuery(Undefined, Some(1), Undefined, Undefined, Undefined) }

\* the largest page number requested
MaxPage == 2
\* the largest table the list route is run on
MaxRows == 12

\* the list requests sent to a table that is not written meanwhile: page
\* undefined or 0..MaxPage, limit undefined, 1, 3 or 10, and each filter
\* undefined or set (email also to the empty string)
WideListQueries ==
    { ListQuery(page, limit, email, startDate, endDate) :
        page \in {Undefined} \cup {Some(n) : n \in 0..MaxPage},
        limit \in {Undefined, Some(1), Some(3), Some(10)},
        email \in {Undefined, Some(<<>>), Some(<<"a", "@", "b", ".", "c", "o">>)},
        startDate \in {Undefined, Some(1)},
        endDate \in {Undefined, Some(3)} }

\* a table n accepted submissions have filled: ids 1..n, the two oldest rows of
\* one timestamp (as the sample rows are), every later row newer than the last
stamp(i) == IF i <= 2 THEN 0 ELSE i - 2

Filled(n) ==
    [i \in 1..n |-> Row(i, <<"J", "o">>, IF i % 2 = 1 THEN <<"a", "@", "b", ".", "c", "o">> ELSE <<"c", "@", "d", ".", "c", "o">>,
                        <<"0", "1", "2", "3", "4", "5", "6", "7", "8", "9">>, stamp(i))]

FilledSizes == 0..MaxRows

\* the X-API-Key header and the configured key
ApiKeys == {Undefined, Some("k1"), Some("k2")}
AdminKeys == {Undefined, Some("k1")}

-----------------------------------------------------------------------------
(* The routes                                                              *)

\* a response as sent, with the request it answers, the statements the
\* handler handed to the pool, and the store error its catch block caught
Response(op, req, status, body, queries, caught) ==
    [op |-> op, req |-> req, status |-> status, body |-> body, queries |-> queries,
     caught |-> caught]

NoResponse == Response("none", <<>>, 0, <<>>, <<>>, Undefined)

\* details that carry the store's message in every mode
devDetails_always(e) == Some(e.message)

\* details: process.env.NODE_ENV === 'development' ? error.message : undefined
devDetails(e) == IF NODE_ENV = "development" THEN Some(e.message) ELSE Undefined

Without(f, k) == [i \in DOMAIN f \ {k} |-> f[i]]

\* a statement handed to pool.query with its parameters
Query(text, params) == [text |-> text, params |-> params]

\* ValidationFailed answering 400 and going on to the INSERT all the same
ValidationFailed_next(body, errors) ==
    LET params == <<trim(body.name), trim(body.email), trim(body.message)>>
    IN /\ res' = Response("create", body, 400,
                          [error |-> "Validation failed", details |-> errors],
                          <<Query("INSERT", params)>>, Undefined)
       /\ contacts' = (nextId :> Row(nextId, params[1], params[2], params[3], now))
                       @@ contacts
       /\ nextId' = nextId + 1
       /\ UNCHANGED created

\* the last element of validateContact: the 400 that ends a request whose
\* validation result is not empty
ValidationFailed(body, errors) ==
    /\ res' = Response("create", body, 400,
                       [error |-> "Validation failed", details |-> errors], <<>>, Undefined)
    /\ UNCHANGED <<contacts, nextId, created>>

\* the route handler, reached through next(): body is req.body as submitted,
\* clean the req.body the chains have rewritten
SaveContact(body, clean, fate) ==
    LET params == <<prepareValue(clean.name), prepareValue(clean.email),
                    prepareValue(clean.message)>>
        result == insertContact(contacts, nextId, now, params, fate)
        data == [id |-> result.rows[1].id, name |-> result.rows[1].name,
                 email |-> result.rows[1].email,
                 created_at |-> result.rows[1].created_at]
        sent == <<Query("INSERT", params)>>
    IN IF result.ok
       THEN /\ contacts' = (data.id :> result.rows[1]) @@ contacts
            /\ nextId' = nextId + 1
            /\ created' = (data.id :> [body |-> body, params |-> params,
                                             data |-> data]) @@ created
            /\ res' = Response("create", body, 201,
                               [success |-> TRUE,
                                message |-> "Contact saved successfully",
                                data |-> data], sent, Undefined)
       ELSE /\ nextId' \in sequenceAfter(nextId, result.error)
            /\ res' = IF result.error.code = "23505"
                      THEN Response("create", body, 409,
                                    [error |-> "Duplicate submission detected"], sent,
                                    Some(result.error))
                      ELSE Response("create", body, 500,
                                    [error |-> "Failed to save contact",
                                     details |-> devDetails(result.error)], sent,
                                    Some(result.error))
            /\ UNCHANGED <<contacts, created>>

\* app.post('/api/contacts', validateContact, ...)
PostContacts(body) ==
    /\ LET v == validateContact(body)
       IN IF v.errors # <<>>
          THEN ValidationFailed(body, v.errors)
          ELSE \E fate \in InsertFates : SaveContact(body, v.body, fate)
    /\ UNCHANGED <<now, NODE_ENV, ADMIN_API_KEY, list, deleted, poolVars, formVars>>

\* app.get('/api/contacts/:id', ...)
GetContact(id, fate) ==
    LET result == selectById(contacts, <<id>>, fate)
        sent == <<Query("SELECT", <<id>>)>>
    IN /\ res' = IF ~result.ok
                 THEN Response("get", id, 500,
                               [error |-> "Failed to fetch contact",
                                details |-> devDetails(result.error)], sent,
                               Some(result.error))
                 ELSE IF Len(result.rows) = 0
                 THEN Response("get", id, 404, [error |-> "Contact not found"], sent,
                               Undefined)
                 ELSE Response("get", id, 200,
                               [success |-> TRUE, data |-> result.rows[1]], sent,
                               Undefined)
       /\ UNCHANGED <<contacts, nextId, now, NODE_ENV, ADMIN_API_KEY, list, created, deleted, poolVars, formVars>>

\* app.delete('/api/contacts/:id', ...)
DeleteContact(id, apiKey, fate) ==
    /\ LET result == deleteById(contacts, <<id>>, fate)
           req == [id |-> id, apiKey |-> apiKey]
           sent == <<Query("DELETE", <<id>>)>>
       IN IF NODE_ENV = "production" /\ apiKey # ADMIN_API_KEY
          THEN /\ res' = Response("delete", req, 401, [error |-> "Unauthorized"], <<>>, Undefined)
               /\ UNCHANGED <<contacts, created, deleted>>
          ELSE IF ~result.ok
          THEN /\ res' = Response("delete", req, 500,
                                  [error |-> "Failed to delete contact",
                                   details |-> devDetails(result.error)], sent,
                                  Some(result.error))
               /\ UNCHANGED <<contacts, created, deleted>>
          ELSE IF Len(result.rows) = 0
          THEN /\ res' = Response("delete", req, 404, [error |-> "Contact not found"], sent,
                                  Undefined)
               /\ UNCHANGED <<contacts, created, deleted>>
          ELSE /\ contacts' = Without(contacts, result.rows[1].id)
               /\ created' = Without(created, result.rows[1].id)
               /\ deleted' = deleted \cup {result.rows[1].id}
               /\ res' = Response("delete", req, 200,
                                  [success |-> TRUE,
                                   message |-> "Contact deleted successfully",
                                   data |-> result.rows[1]], sent, Undefined)
    /\ UNCHANGED <<nextId, now, NODE_ENV, ADMIN_API_KEY, list, poolVars, formVars>>

\* page = 1, limit = 10: the default of a parameter that is undefined
orDefault(param, default) == IF param = Undefined THEN default ELSE param[1]

\* the truth of if (email), if (startDate), if (endDate): a parameter that is
\* set, and not to the empty string
truthy(param) == param # Undefined /\ param[1] # <<>>

\* if (value) { paramCount++; conditions.push(...); params.push(value) }
pushFilter(acc, present, column, op, value) ==
    IF present
    THEN [paramCount |-> acc.paramCount + 1,
          conditions |-> Append(acc.conditions, Condition(column, op, acc.paramCount + 1)),
          params |-> Append(acc.params, value)]
    ELSE acc

\* conditions and params after the three ifs
filters(q) ==
    LET none == [paramCount |-> 0, conditions |-> <<>>, params |-> <<>>]
        a == pushFilter(none, truthy(q.email), "email", "=", Text(orDefault(q.email, <<>>)))
        b == pushFilter(a, q.startDate # Undefined, "created_at", ">=",
                        Num(orDefault(q.startDate, 0)))
    IN pushFilter(b, q.endDate # Undefined, "created_at", "<=", Num(orDefault(q.endDate, 0)))

\* an offset that skips the requested page as well
offsetOf_pageTimesLimit(q) == orDefault(q.page, 1) * orDefault(q.limit, 10)

\* const offset = (page - 1) * limit
offsetOf(q) == (orDefault(q.page, 1) - 1) * orDefault(q.limit, 10)

\* params.push(parseInt(limit), offset)
pageParams(q) == filters(q).params \o <<Num(orDefault(q.limit, 10)), Num(offsetOf(q))>>

\* query, with its LIMIT and OFFSET placeholders, and [query, params]
rowQuery(q) ==
    [where |-> filters(q).conditions,
     limit |-> filters(q).paramCount + 1,
     offset |-> filters(q).paramCount + 2,
     params |-> pageParams(q)]

\* a count query handed the row query's whole parameter list
countQuery_allParams(q) ==
    [where |-> filters(q).conditions, params |-> pageParams(q)]

\* [countQuery, params.slice(0, paramCount)]
countQuery(q) ==
    [where |-> filters(q).conditions,
     params |-> SubSeq(pageParams(q), 1, filters(q).paramCount)]

\* Math.ceil(count / limit), for limit >= 1
ceilDiv(count, limit) == (count + limit - 1) \div limit

\* no list request is awaiting its queries
Idle ==
    [pc |-> "idle", req |-> <<>>, query |-> <<>>, countQuery |-> <<>>,
     result |-> Undefined, countResult |-> Undefined, rejected |-> Undefined]

\* app.get('/api/contacts', ...) up to its await: both queries are handed to
\* the pool at once (Promise.all)
ListContacts(q) ==
    /\ list.pc = "idle"
    /\ list' = [pc |-> "await", req |-> q, query |-> rowQuery(q),
                countQuery |-> countQuery(q), result |-> Undefined,
                countResult |-> Undefined, rejected |-> Undefined]
    /\ UNCHANGED <<contacts, nextId, now, NODE_ENV, ADMIN_API_KEY, res, created, deleted, poolVars, formVars>>

\* the first rejection is the one Promise.all rejects with
reject(result) ==
    IF ~result.ok /\ list.rejected = Undefined THEN Some(result.error) ELSE list.rejected

\* the store runs the row query
RunQuery(order, fate) ==
    /\ list.pc = "await"
    /\ list.result = Undefined
    /\ LET result == selectPage(contacts, list.query, order, fate)
       IN list' = [list EXCEPT !.result = Some(result), !.rejected = reject(result)]
    /\ UNCHANGED <<contacts, nextId, now, NODE_ENV, ADMIN_API_KEY, res, created, deleted, poolVars, formVars>>

\* the store runs the count query
RunCountQuery(fate) ==
    /\ list.pc = "await"
    /\ list.countResult = Undefined
    /\ LET result == selectCount(contacts, list.countQuery, fate)
       IN list' = [list EXCEPT !.countResult = Some(result), !.rejected = reject(result)]
    /\ UNCHANGED <<contacts, nextId, now, NODE_ENV, ADMIN_API_KEY, res, created, deleted, poolVars, formVars>>

\* the await returns with both results, or throws into the catch
ListRespond ==
    /\ list.pc = "await"
    /\ \/ list.rejected # Undefined
       \/ list.result # Undefined /\ list.countResult # Undefined
    /\ res' = LET sent == <<list.query, list.countQuery>> IN
              IF list.rejected # Undefined
              THEN Response("list", list.req, 500,
                            [error |-> "Failed to fetch contacts",
                             details |-> devDetails(list.rejected[1])],
                            sent, list.rejected)
              ELSE Response("list", list.req, 200,
                            [success |-> TRUE,
                             data |-> list.result[1].rows,
                             pagination |->
                                 [page |-> orDefault(list.req.page, 1),
                                  limit |-> orDefault(list.req.limit, 10),
                                  total |-> list.countResult[1].rows[1].count,
                                  totalPages |-> ceilDiv(list.countResult[1].rows[1].count,
                                                         orDefault(list.req.limit, 10))]],
                            sent, Undefined)
    /\ list' = Idle
    /\ UNCHANGED <<contacts, nextId, now, NODE_ENV, ADMIN_API_KEY, created, deleted, poolVars, formVars>>

\* the store's clock advances
Tick ==
    /\ now < MaxClock
    /\ now' = now + 1
    /\ UNCHANGED <<contacts, nextId, NODE_ENV, ADMIN_API_KEY, list, res, created, deleted, poolVars, formVars>>

-----------------------------------------------------------------------------
(* Health, metrics and the middleware around the routes                    *)

\* everything the server's routes read or write
serverVars == <<contacts, nextId, now, NODE_ENV, ADMIN_API_KEY, list, res, created, deleted>>

\* SELECT 1
selectOne(fate) ==
    IF fate = "lost" THEN Failed(ConnectionLost) ELSE Rows(<<[one |-> 1]>>)

\* the health object as first built, and after a failed database check
Healthy ==
    [status |-> "healthy", timestamp |-> now, service |-> "contact-form-api",
     uptime |-> now, checks |-> [database |-> "healthy"]]

Unhealthy(error) ==
    [status |-> "unhealthy", timestamp |-> now, service |-> "contact-form-api",
     uptime |-> now, checks |-> [database |-> "unhealthy"],
     databaseError |-> error.message]

\* app.get('/api/health', ...)
GetHealth(fate) ==
    LET result == selectOne(fate)
        sent == <<Query("SELECT 1", <<>>)>>
    IN /\ res' = IF result.ok
                 THEN Response("health", <<>>, 200, Healthy, sent, Undefined)
                 ELSE Response("health", <<>>, 503, Unhealthy(result.error), sent,
                               Some(result.error))
       /\ UNCHANGED <<contacts, nextId, now, NODE_ENV, ADMIN_API_KEY, list, created, deleted,
                      poolVars, formVars>>

\* how many ticks of the store's clock make a calendar day
TicksPerDay == 2

\* INTERVAL '30 days'
trailingDays == 30

\* DATE(created_at), CURRENT_DATE: the day a timestamp falls on
DATE(at) == at \div TicksPerDay

\* ORDER BY date DESC
RECURSIVE descending(_)
descending(S) == IF S = {} THEN <<>> ELSE <<Max(S)>> \o descending(S \ {Max(S)})

\* SELECT COUNT(*) as total_contacts, COUNT(DISTINCT email) as unique_emails,
\* DATE(created_at) as date, COUNT(*) as daily_count FROM contacts
\* WHERE created_at >= CURRENT_DATE - INTERVAL '30 days'
\* GROUP BY DATE(created_at) ORDER BY date DESC: every aggregate is computed
\* over the rows of one group
selectMetrics(table, at, fate) ==
    LET recent == {i \in DOMAIN table :
                      table[i].created_at >= (DATE(at) - trailingDays) * TicksPerDay}
        group(d) == {i \in recent : DATE(table[i].created_at) = d}
        dates == descending({DATE(table[i].created_at) : i \in recent})
    IN IF fate = "lost" THEN Failed(ConnectionLost)
       ELSE Rows([k \in 1..Len(dates) |->
                     [total_contacts |-> Cardinality(group(dates[k])),
                      unique_emails |-> Cardinality({table[i].email : i \in group(dates[k])}),
                      date |-> dates[k],
                      daily_count |-> Cardinality(group(dates[k]))]])

\* app.get('/api/metrics', ...)
GetMetrics(fate) ==
    LET result == selectMetrics(contacts, now, fate)
        sent == <<Query("SELECT metrics", <<>>)>>
    IN /\ res' = IF result.ok
                 THEN Response("metrics", <<>>, 200,
                               [success |-> TRUE, data |-> result.rows], sent, Undefined)
                 ELSE Response("metrics", <<>>, 500,
                               [error |-> "Failed to fetch metrics",
                                details |-> devDetails(result.error)], sent,
                               Some(result.error))
       /\ UNCHANGED <<contacts, nextId, now, NODE_ENV, ADMIN_API_KEY, list, created, deleted,
                      poolVars, formVars>>

\* a 404 whose body names no error
EndpointNotFound_message ==
    /\ res' = Response("unmatched", <<>>, 404, [message |-> "Not found"], <<>>, Undefined)
    /\ UNCHANGED <<contacts, nextId, now, NODE_ENV, ADMIN_API_KEY, list, created, deleted,
                   poolVars, formVars>>

\* the 404 handler: a request no route matched
EndpointNotFound ==
    /\ res' = Response("unmatched", <<>>, 404, [error |-> "Endpoint not found"], <<>>,
                       Undefined)
    /\ UNCHANGED <<contacts, nextId, now, NODE_ENV, ADMIN_API_KEY, list, created, deleted,
                   poolVars, formVars>>

\* the error express.json() passes on for a body that is not JSON
ParseFailed == StoreError("entity.parse.failed", "Unexpected token in JSON")

\* the error-handling middleware: a request whose middleware called next(err)
UnhandledError(err) ==
    /\ res' = Response("failed", <<>>, 500,
                       [error |-> "Internal server error", details |-> devDetails(err)],
                       <<>>, Undefined)
    /\ UNCHANGED <<contacts, nextId, now, NODE_ENV, ADMIN_API_KEY, list, created, deleted,
                   poolVars, formVars>>

\* the rate limiter answering a request over the ceiling of its window (the
\* window's counter is not modelled: any request may be the one over it)
TooManyRequests ==
    /\ res' = Response("limited", <<>>, 429,
                       [error |-> "Too many requests, please try again later."], <<>>,
                       Undefined)
    /\ UNCHANGED <<contacts, nextId, now, NODE_ENV, ADMIN_API_KEY, list, created, deleted,
                   poolVars, formVars>>

-----------------------------------------------------------------------------
(* The connection pool                                                     *)

\* const maxRetries = 5
maxRetries == 5

\* the delay of setTimeout(createPool, 5000)
backoff == 5000

\* createPool() at startup: the first pool, no retry yet
PoolStarted == retries = 0 /\ pools = 1 /\ timers = <<>>

\* pool.on('error', ...) of the p-th pool created: every pool keeps its
\* listener, none is ever ended
OnPoolError(p) ==
    /\ p \in 1..pools
    /\ IF retries < maxRetries
       THEN /\ retries' = retries + 1
            /\ timers' = Append(timers, backoff)
       ELSE UNCHANGED <<retries, timers>>
    /\ UNCHANGED <<pools, serverVars, formVars>>

\* a timeout that fires without building a pool
createPool_none ==
    /\ timers # <<>>
    /\ timers' = Tail(timers)
    /\ UNCHANGED <<pools, retries, serverVars, formVars>>

\* a timeout fires and runs createPool: pool = new Pool(...)
createPool ==
    /\ timers # <<>>
    /\ timers' = Tail(timers)
    /\ pools' = pools + 1
    /\ UNCHANGED <<retries, serverVars, formVars>>

-----------------------------------------------------------------------------
(* The ContactForm component                                               *)

\* the most submissions one component starts
MaxPosts == 2

\* the values the user types into the three fields
FieldNames == {<<>>, <<"J">>, <<"J", "o">>}
FieldEmails == {<<>>, <<"b", "a", "d">>, <<"a", "@", "b", ".", "c", "o">>}
FieldMessages == {<<>>, <<"s", "h", "o", "r", "t">>, <<"0", "1", "2", "3", "4", "5", "6", "7", "8", "9">>}

\* const emailRegex = /^[^\s@]+@[^\s@]+\.[^\s@]+$/
emailRegex(s) ==
    LET ats == {i \in 1..Len(s) : s[i] = "@"}
    IN /\ \A i \in 1..Len(s) : s[i] \notin Whitespace
       /\ Cardinality(ats) = 1
       /\ \E at \in ats :
             /\ at > 1
             /\ \E dot \in (at + 2)..(Len(s) - 1) : s[dot] = "."

\* validateField(field): required, then the rule of the field
validateField(id, value) ==
    /\ trim(value) # <<>>
    /\ id = "email" => emailRegex(value)
    /\ id = "name" => Len(value) >= 2
    /\ id = "message" => Len(value) >= 10

\* validateForm()
validateForm(d) ==
    /\ validateField("name", d.name)
    /\ validateField("email", d.email)
    /\ validateField("message", d.message)

\* the constructor's this.state and the page as rendered
FormLoaded ==
    /\ state = [submitting |-> FALSE, success |-> FALSE]
    /\ dom = [name |-> <<>>, email |-> <<>>, message |-> <<>>, disabled |-> FALSE,
              timeouts |-> 0]
    /\ fetching = [sent |-> 0, pending |-> {}]

\* updateButton(): submitBtn.disabled = this.state.submitting
updateButton(d, s) == [d EXCEPT !.disabled = s.submitting]

\* the user types into a field
Input(field, value) ==
    /\ dom' = [dom EXCEPT ![field] = value]
    /\ UNCHANGED <<state, fetching, serverVars, poolVars>>

\* a handleSubmit that does not look at state.submitting
handleSubmit_unguarded ==
    /\ IF ~validateForm(dom)
       THEN UNCHANGED formVars
       ELSE /\ fetching.sent < MaxPosts
            /\ state' = [state EXCEPT !.submitting = TRUE]
            /\ dom' = updateButton(dom, state')
            /\ fetching' =
                   [sent |-> fetching.sent + 1,
                    pending |-> fetching.pending \cup
                        {[id |-> fetching.sent + 1, stage |-> "fetch", ok |-> FALSE,
                          formData |-> [name |-> dom.name, email |-> dom.email,
                                        message |-> dom.message]]}]
    /\ UNCHANGED <<serverVars, poolVars>>

\* a submit event: handleSubmit() up to its await fetch(...)
handleSubmit ==
    /\ IF ~validateForm(dom) \/ state.submitting
       THEN UNCHANGED formVars
       ELSE /\ fetching.sent < MaxPosts
            /\ state' = [state EXCEPT !.submitting = TRUE]
            /\ dom' = updateButton(dom, state')
            /\ fetching' =
                   [sent |-> fetching.sent + 1,
                    pending |-> fetching.pending \cup
                        {[id |-> fetching.sent + 1, stage |-> "fetch", ok |-> FALSE,
                          formData |-> [name |-> dom.name, email |-> dom.email,
                                        message |-> dom.message]]}]
    /\ UNCHANGED <<serverVars, poolVars>>

\* catch (error) { ... } finally { this.setState({ submitting: false }) }
Finally(f) ==
    /\ state' = [state EXCEPT !.submitting = FALSE]
    /\ dom' = updateButton(dom, state')
    /\ fetching' = [fetching EXCEPT !.pending = @ \ {f}]

\* the fetch of a submission settles: a response (ok or not), or a rejection
FetchSettles(f, outcome) ==
    /\ f \in fetching.pending
    /\ f.stage = "fetch"
    /\ IF outcome = "throws"
       THEN Finally(f)
       ELSE /\ fetching' = [fetching EXCEPT !.pending =
                               (@ \ {f}) \cup {[f EXCEPT !.stage = "json",
                                                         !.ok = (outcome = "ok")]}]
            /\ UNCHANGED <<state, dom>>
    /\ UNCHANGED <<serverVars, poolVars>>

\* response.json() settles, and the rest of handleSubmit runs: on an ok
\* response the form is reset, success is set and its timeout scheduled
JsonSettles(f, outcome) ==
    /\ f \in fetching.pending
    /\ f.stage = "json"
    /\ IF outcome = "parsed" /\ f.ok
       THEN /\ state' = [submitting |-> FALSE, success |-> TRUE]
            /\ dom' = updateButton([dom EXCEPT !.name = <<>>, !.email = <<>>,
                                               !.message = <<>>,
                                               !.timeouts = @ + 1], state')
            /\ fetching' = [fetching EXCEPT !.pending = @ \ {f}]
       ELSE Finally(f)
    /\ UNCHANGED <<serverVars, poolVars>>

\* setTimeout(() => { this.setState({ success: false }) }, 5000) fires
SuccessTimeout ==
    /\ dom.timeouts > 0
    /\ state' = [state EXCEPT !.success = FALSE]
    /\ dom' = updateButton([dom EXCEPT !.timeouts = @ - 1], state')
    /\ UNCHANGED <<fetching, serverVars, poolVars>>

-----------------------------------------------------------------------------
(* Specifications                                                          *)

\* the server has started: the table exists, empty or holding init.sql's rows
Init ==
    /\ contacts \in {EmptyTable, SampleData}
    /\ nextId = Cardinality(DOMAIN contacts) + 1
    /\ now = 0
    /\ NODE_ENV \in {"production", "development", "test"}
    /\ ADMIN_API_KEY \in AdminKeys
    /\ list = Idle
    /\ res = NoResponse
    /\ created = EmptyTable
    /\ deleted = {}
    /\ PoolStarted
    /\ FormLoaded

Create == \E body \in Bodies : nextId <= MaxId /\ PostContacts(body)
GetById == \E id \in IdInputs, fate \in QueryFates : GetContact(id, fate)
Delete == \E id \in IdInputs, apiKey \in ApiKeys, fate \in QueryFates :
              DeleteContact(id, apiKey, fate)

List == \E q \in ListQueries : ListContacts(q)
RowQuery == /\ list.pc = "await"
            /\ \E fate \in QueryFates :
                   \E order \in orderings(contacts, matching(contacts, list.query.where,
                                                             list.query.params)) :
                       RunQuery(order, fate)
CountQuery == \E fate \in QueryFates : RunCountQuery(fate)

\* the three single-statement routes under every configuration
Next == Create \/ GetById \/ Delete \/ Tick

Spec == Init /\ [][Next]_vars

\* the list route on a filled table that nothing writes: one request, its two
\* queries in either order, and its response
InitList ==
    /\ \E n \in FilledSizes :
           contacts = Filled(n) /\ nextId = n + 1 /\ now = stamp(n)
    /\ NODE_ENV \in {"production", "development"}
    /\ ADMIN_API_KEY = Undefined
    /\ list = Idle
    /\ res = NoResponse
    /\ created = EmptyTable
    /\ deleted = {}
    /\ PoolStarted
    /\ FormLoaded

ListOnce == \E q \in WideListQueries : res = NoResponse /\ ListContacts(q)

NextList == ListOnce \/ RowQuery \/ CountQuery \/ ListRespond

SpecList == InitList /\ [][NextList]_vars

\* all four routes, the list route's two queries interleaved with the others,
\* on a development server started with an empty table
InitRoutes ==
    Init /\ contacts = EmptyTable /\ NODE_ENV = "development" /\ ADMIN_API_KEY = Undefined

\* a DELETE that sends no X-API-Key header
DeleteNoKey == \E id \in IdInputs, fate \in QueryFates : DeleteContact(id, Undefined, fate)

NextRoutes ==
    Create \/ GetById \/ DeleteNoKey \/ List \/ RowQuery \/ CountQuery \/ ListRespond \/ Tick

SpecRoutes == InitRoutes /\ [][NextRoutes]_vars

\* the validator and the INSERT on every combination of field inputs: one
\* submission to the freshly started server, then reads of what it stored
Submit == \E body \in ValidateBodies : res = NoResponse /\ PostContacts(body)

NextValidate == Submit \/ GetById

InitValidate == Init /\ contacts = EmptyTable /\ ADMIN_API_KEY = Undefined

SpecValidate == InitValidate /\ [][NextValidate]_vars

\* one request of any kind, over the rate ceiling or not, to the freshly
\* started server: every route, the 404 handler and the error middleware
Unanswered == res = NoResponse /\ list.pc = "idle"

Health == \E fate \in QueryFates : GetHealth(fate)
Metrics == \E fate \in QueryFates : GetMetrics(fate)

OneCreate == Unanswered /\ Create
OneGet == Unanswered /\ GetById
OneDelete == Unanswered /\ Delete
OneList == Unanswered /\ List
OneHealth == Unanswered /\ Health
OneMetrics == Unanswered /\ Metrics
Unmatched == Unanswered /\ EndpointNotFound
BadBody == Unanswered /\ UnhandledError(ParseFailed)
Limited == Unanswered /\ TooManyRequests

NextEnvelope ==
    \/ OneCreate \/ OneGet \/ OneDelete
    \/ OneList \/ RowQuery \/ CountQuery \/ ListRespond
    \/ OneHealth \/ OneMetrics \/ Unmatched \/ BadBody \/ Limited

SpecEnvelope == Init /\ [][NextEnvelope]_vars

\* the most rows of the tables the metrics route is run on
MaxMetricRows == 3

\* created_at of those rows: older than the trailing 30 days, two moments of
\* the day 30 days back, and today
MetricStamps ==
    {0, trailingDays * TicksPerDay, trailingDays * TicksPerDay + 1,
     (trailingDays + 1) * TicksPerDay}

MetricEmails == {<<"a", "@", "b", ".", "c", "o">>, <<"c", "@", "d", ".", "c", "o">>}

\* the metrics route on tables of every mix of dates and emails
InitMetrics ==
    /\ \E n \in 0..MaxMetricRows :
           \E stamps \in [1..n -> MetricStamps], emails \in [1..n -> MetricEmails] :
               /\ \A i \in 1..n, j \in 1..n : i < j => stamps[i] <= stamps[j]
               /\ contacts = [i \in 1..n |-> Row(i, <<"J", "o">>, emails[i], <<"0", "1", "2", "3", "4", "5", "6", "7", "8", "9">>, stamps[i])]
               /\ nextId = n + 1
    /\ now = (trailingDays + 1) * TicksPerDay
    /\ NODE_ENV = "development"
    /\ ADMIN_API_KEY = Undefined
    /\ list = Idle
    /\ res = NoResponse
    /\ created = EmptyTable
    /\ deleted = {}
    /\ PoolStarted
    /\ FormLoaded

NextMetrics == OneMetrics \/ OneHealth

SpecMetrics == InitMetrics /\ [][NextMetrics]_vars

\* the pool's 'error' events and the timeouts they schedule, while requests
\* are served; a scheduled timeout does fire
InitPool ==
    Init /\ contacts = SampleData /\ NODE_ENV = "development" /\ ADMIN_API_KEY = Undefined

PoolError == \E p \in 1..pools : OnPoolError(p)

NextPool == PoolError \/ createPool \/ GetById \/ Health

SpecPool == InitPool /\ [][NextPool]_vars /\ WF_vars(createPool)

\* one component: typing, submit events, and the settling of what it sent;
\* a fetch and the reading of its body do settle
InitForm ==
    Init /\ contacts = EmptyTable /\ NODE_ENV = "development" /\ ADMIN_API_KEY = Undefined

TypeName == \E value \in FieldNames : Input("name", value)
TypeEmail == \E value \in FieldEmails : Input("email", value)
TypeMessage == \E value \in FieldMessages : Input("message", value)
FetchDone == \E f \in fetching.pending, outcome \in {"ok", "notok", "throws"} :
                 FetchSettles(f, outcome)
JsonDone == \E f \in fetching.pending, outcome \in {"parsed", "throws"} :
                JsonSettles(f, outcome)

NextForm ==
    TypeName \/ TypeEmail \/ TypeMessage \/ handleSubmit \/ FetchDone \/ JsonDone
        \/ SuccessTimeout

SpecForm == InitForm /\ [][NextForm]_vars /\ WF_vars(FetchDone) /\ WF_vars(JsonDone)

-----------------------------------------------------------------------------
(* The claims                                                              *)

\* the rules of the three fields, on the body as submitted
nameOk(body) == Len(trim(body.name)) >= 2 /\ Len(trim(body.name)) <= 100
messageOk(body) == Len(trim(body.message)) >= 10 /\ Len(trim(body.message)) <= 1000
emailOk(body) == trim(body.email) # <<>> /\ isEmail(trim(body.email))

\* the shape local@domain.tld: no whitespace, a single @ with text before it,
\* and after it a domain with a dot between two non-empty parts
localAtDomainTld(s) ==
    LET ats == {i \in 1..Len(s) : s[i] = "@"}
    IN /\ \A i \in 1..Len(s) : s[i] \notin Whitespace
       /\ Cardinality(ats) = 1
       /\ \E at \in ats :
             /\ at > 1
             /\ \E dot \in (at + 2)..(Len(s) - 1) : s[dot] = "."

\* the request got past validateContact to the route handler
reachedHandler == res.queries # <<>>

answered400 == res.status = 400 /\ res.body.error = "Validation failed"

\* C1, as claimed: a submission gets past validateContact exactly when the
\* trimmed name has 2..100 characters, the trimmed message 10..1000, and the
\* trimmed email is non-empty and has the shape local@domain.tld; every other
\* submission is answered 400 'Validation failed'.
C1_ShapeDecides ==
    res.op = "create" =>
        IF nameOk(res.req) /\ messageOk(res.req) /\ trim(res.req.email) # <<>>
           /\ localAtDomainTld(trim(res.req.email))
        THEN reachedHandler /\ res.status # 400
        ELSE ~reachedHandler /\ answered400

\* C1, amended: a submission gets past validateContact exactly when the trimmed
\* name has 2..100 characters, the trimmed message 10..1000, and the trimmed
\* email is non-empty and passes isEmail; every other submission is answered
\* 400 'Validation failed'.
C1_IsEmailDecides ==
    res.op = "create" =>
        IF nameOk(res.req) /\ messageOk(res.req) /\ emailOk(res.req)
        THEN reachedHandler /\ res.status # 400
        ELSE ~reachedHandler /\ answered400

\* a name of 100 characters between whitespace was let through
C1_Witness ==
    /\ res.op = "create"
    /\ res.status = 201
    /\ Len(res.req.name) > 100
    /\ Len(res.body.data.name) = 100

\* the fields of the body that break their rule
failing(body) ==
    {f \in {"name", "email", "message"} :
        \/ f = "name" /\ ~nameOk(body)
        \/ f = "email" /\ ~emailOk(body)
        \/ f = "message" /\ ~messageOk(body)}

rank(f) == IF f = "name" THEN 1 ELSE IF f = "email" THEN 2 ELSE 3

\* C2: the details of a 400 hold an entry for each field that breaks its rule
\* and none for a field that satisfies it, the entries of name before those of
\* email before those of message; a submission with no failing field is not
\* answered 400; and {name: 'J', email: 'bad', message: 'short'} gets exactly
\* three entries: name length, email format, message length.
C2_EveryFailingField ==
    res.op = "create" =>
        /\ res.status = 400 <=> failing(res.req) # {}
        /\ res.status = 400 =>
              LET d == res.body.details
              IN /\ {d[i].param : i \in 1..Len(d)} = failing(res.req)
                 /\ \A i, j \in 1..Len(d) : i < j => rank(d[i].param) <= rank(d[j].param)
        /\ res.req = Body(<<"J">>, <<"b", "a", "d">>, <<"s", "h", "o", "r", "t">>) =>
              res.body.details =
                  << FieldError("name", "Name must be between 2 and 100 characters"),
                     FieldError("email", "Please provide a valid email address"),
                     FieldError("message", "Message must be between 10 and 1000 characters") >>

\* {name: 'J', email: 'bad', message: 'short'} was answered 400
C2_Witness ==
    /\ res.op = "create"
    /\ res.req = Body(<<"J">>, <<"b", "a", "d">>, <<"s", "h", "o", "r", "t">>)
    /\ res.status = 400
    /\ Len(res.body.details) = 3

\* the email parameter of the INSERT a create request sent
handedEmail == res.queries[1].params[2]

\* the id a get request asked for, when the store reads it as an integer
askedId == parseDigits(res.req)

\* C3, as claimed: the email handed to the INSERT is the submitted one trimmed
\* and lower-cased and nothing else, and a later GetById returns the stored
\* value unchanged.
C3_TrimLowercaseOnly ==
    /\ res.op = "create" /\ reachedHandler =>
           handedEmail = toLowerCase(trim(res.req.email))
    /\ res.op = "get" /\ res.status = 200 /\ askedId \in DOMAIN created =>
           res.body.data.email = toLowerCase(trim(created[askedId].body.email))

\* the domains normalizeEmail rewrites the address of
providerDomains ==
    {gmail_com, googlemail_com} \cup icloud_domains \cup outlookdotcom_domains
        \cup yahoo_domains \cup yandex_domains

\* C3, amended: the email handed to the INSERT is normalizeEmail of the
\* trimmed input, as text: for an address at none of the provider domains that
\* is the input trimmed and lower-cased and nothing else ('  Foo@EXAMPLE.com '
\* gives 'foo@example.com'); at a provider domain dots or a sub-address are
\* removed from the local part or the domain is rewritten. A later GetById
\* returns the stored value unchanged.
C3_NormalizeEmail ==
    /\ res.op = "create" /\ reachedHandler =>
           /\ handedEmail = prepareValue(normalizeEmail(trim(res.req.email)))
           /\ toLowerCase(emailDomain(trim(res.req.email))) \notin providerDomains =>
                  handedEmail = toLowerCase(trim(res.req.email))
           /\ res.req.email = <<" ", " ", "F", "o", "o", "@", "E", "X", "A", "M", "P", "L", "E", ".", "c", "o", "m", " ">> => handedEmail = <<"f", "o", "o", "@", "e", "x", "a", "m", "p", "l", "e", ".", "c", "o", "m">>
           /\ res.req.email = <<"A", ".", "B", "+", "t", "a", "g", "@", "G", "m", "a", "i", "l", ".", "c", "o", "m">> => handedEmail = <<"a", "b", "@", "g", "m", "a", "i", "l", ".", "c", "o", "m">>
           /\ res.status = 201 => /\ res.body.data.email = handedEmail
                                  /\ contacts[res.body.data.id].email = handedEmail
    /\ res.op = "get" /\ res.status = 200 /\ askedId \in DOMAIN created =>
           /\ res.body.data.email = created[askedId].params[2]
           /\ res.body.data.email = contacts[askedId].email

\* a gmail address was stored without its dot and sub-address and read back
C3_Witness ==
    /\ res.op = "get"
    /\ res.status = 200
    /\ askedId \in DOMAIN created
    /\ created[askedId].body.email = <<"A", ".", "B", "+", "t", "a", "g", "@", "G", "m", "a", "i", "l", ".", "c", "o", "m">>
    /\ res.body.data.email = <<"a", "b", "@", "g", "m", "a", "i", "l", ".", "c", "o", "m">>

\* C4: a POST /api/contacts whose body fails validation is answered 400 having
\* handed no statement to the pool, and leaves the table and its sequence as
\* they were.
C4_RejectedNeverQueries ==
    [][res' # res /\ res'.op = "create" /\ res'.status = 400
          => /\ res'.queries = <<>>
             /\ contacts' = contacts
             /\ nextId' = nextId]_vars

\* a submission was answered 400
C4_Witness ==
    /\ res.op = "create"
    /\ res.status = 400
    /\ res.queries = <<>>
    /\ contacts = EmptyTable

\* C5: once a Create answered 201 with id i, and whatever Create, List,
\* GetById and Delete requests followed that did not delete i, a GetById(i) the
\* store answers returns 200 with that id, the name, email and message that were
\* inserted and the created_at the Create returned; it fails (500) only when the
\* store itself failed the SELECT.
C5_GetReturnsCreated ==
    res.op = "get" /\ isInteger(res.req) /\ askedId \in DOMAIN created =>
        IF res.caught = Undefined
        THEN /\ res.status = 200
             /\ res.body.data.id = askedId
             /\ res.body.data.id = created[askedId].data.id
             /\ res.body.data.name = created[askedId].params[1]
             /\ res.body.data.name = trim(created[askedId].body.name)
             /\ res.body.data.email = created[askedId].params[2]
             /\ res.body.data.message = created[askedId].params[3]
             /\ res.body.data.message = trim(created[askedId].body.message)
             /\ res.body.data.created_at = created[askedId].data.created_at
        ELSE res.status = 500 /\ res.caught = Some(ConnectionLost)

\* id 1 was read back after a second Create, the deletion of that second
\* record and a tick of the clock
C5_Witness ==
    /\ res.op = "get"
    /\ res.status = 200
    /\ askedId = 1
    /\ deleted = {2}
    /\ nextId = 3
    /\ res.body.data.created_at < now

\* the page and limit a list request asks for, absent ones being 1 and 10
askedPage == IF res.req.page = Undefined THEN 1 ELSE res.req.page[1]
askedLimit == IF res.req.limit = Undefined THEN 10 ELSE res.req.limit[1]

\* a filter is present when the request sets it to a value that is not empty
hasEmail == res.req.email # Undefined /\ res.req.email[1] # <<>>
hasStart == res.req.startDate # Undefined
hasEnd == res.req.endDate # Undefined

\* the ids of the stored rows that satisfy every filter the request sets
wanted ==
    {i \in DOMAIN contacts :
        /\ hasEmail => contacts[i].email = res.req.email[1]
        /\ hasStart => contacts[i].created_at >= res.req.startDate[1]
        /\ hasEnd => contacts[i].created_at <= res.req.endDate[1]}

\* how many of the wanted rows are newer than the given timestamp
newer(at) == Cardinality({i \in wanted : contacts[i].created_at > at})
notOlder(at) == Cardinality({i \in wanted : contacts[i].created_at >= at})

\* C6: for page >= 1 and limit >= 1 (absent: 1 and 10) a list request the
\* store answers returns exactly the rows at positions (page-1)*limit ..
\* page*limit-1 of the matching rows in created_at descending order (rows of
\* one timestamp in either order), and totalPages = ceil(total / limit); on 12
\* rows without a filter and limit 10, totalPages is 2 and page 2 is the 2
\* oldest rows.
C6_PageIsWindow ==
    res.op = "list" /\ askedPage >= 1 /\ askedLimit >= 1 =>
        IF res.caught # Undefined
        THEN res.status = 500 /\ res.caught = Some(ConnectionLost)
        ELSE LET data == res.body.data
                 p == res.body.pagination
                 skipped == (askedPage - 1) * askedLimit
                 total == Cardinality(wanted)
             IN /\ res.status = 200
                /\ p.page = askedPage /\ p.limit = askedLimit /\ p.total = total
                /\ p.totalPages * askedLimit >= total
                /\ (p.totalPages - 1) * askedLimit < total \/ (total = 0 /\ p.totalPages = 0)
                /\ Len(data) = Max({0, Min({askedLimit, total - skipped})})
                /\ \A k \in 1..Len(data) :
                       /\ data[k].id \in wanted
                       /\ data[k] = listed(contacts[data[k].id])
                       /\ newer(data[k].created_at) < skipped + k
                       /\ notOlder(data[k].created_at) >= skipped + k
                       /\ \A j \in 1..Len(data) : j # k => data[j].id # data[k].id
                /\ (total = 12 /\ wanted = DOMAIN contacts /\ askedLimit = 10) =>
                       /\ p.totalPages = 2
                       /\ askedPage = 2 => {data[k].id : k \in 1..Len(data)} = {1, 2}

\* page 2 of 12 rows with the default limit: the 2 oldest rows
C6_Witness ==
    /\ res.op = "list"
    /\ res.status = 200
    /\ Cardinality(DOMAIN contacts) = 12
    /\ res.req.page = Some(2)
    /\ res.req.limit = Undefined
    /\ ~hasEmail /\ ~hasStart /\ ~hasEnd
    /\ Len(res.body.data) = 2
    /\ res.body.pagination.totalPages = 2

\* the filters a list request sets, in the order the route tests them
wantedFilters ==
    (IF hasEmail THEN <<[column |-> "email", op |-> "=", value |-> Text(res.req.email[1])]>>
     ELSE <<>>)
    \o (IF hasStart
        THEN <<[column |-> "created_at", op |-> ">=", value |-> Num(res.req.startDate[1])]>>
        ELSE <<>>)
    \o (IF hasEnd
        THEN <<[column |-> "created_at", op |-> "<=", value |-> Num(res.req.endDate[1])]>>
        ELSE <<>>)

\* C7: whichever of email, startDate and endDate a list request sets, both
\* queries carry the conjunction of exactly those filters (none: no WHERE
\* clause), placeholder $k is bound to the k-th filter value, LIMIT and OFFSET
\* are the next two placeholders, the count query is handed the filter values
\* and nothing else, and the total reported is the number of rows that match
\* the filters whatever page and limit are.
C7_FiltersBindInOrder ==
    res.op = "list" =>
        LET row == res.queries[1]
            count == res.queries[2]
            n == Len(wantedFilters)
        IN /\ Len(row.where) = n
           /\ count.where = row.where
           /\ \A k \in 1..n :
                  /\ row.where[k].column = wantedFilters[k].column
                  /\ row.where[k].op = wantedFilters[k].op
                  /\ row.where[k].placeholder = k
                  /\ row.params[k] = wantedFilters[k].value
           /\ row.limit = n + 1 /\ row.offset = n + 2
           /\ Len(row.params) = n + 2
           /\ row.params[n + 1] = Num(askedLimit)
           /\ row.params[n + 2] = Num((askedPage - 1) * askedLimit)
           /\ count.params = [k \in 1..n |-> wantedFilters[k].value]
           /\ res.caught # Undefined => res.caught[1] \in {ConnectionLost, NegativeOffset}
           /\ res.status = 200 => res.body.pagination.total = Cardinality(wanted)
           /\ res.status = 200 \/ res.caught # Undefined

\* all three filters set, page 2 of limit 1: one of the two matching rows
C7_Witness ==
    /\ res.op = "list"
    /\ res.status = 200
    /\ hasEmail /\ hasStart /\ hasEnd
    /\ res.req.page = Some(2)
    /\ res.req.limit = Some(1)
    /\ res.body.pagination.total = 2
    /\ Cardinality(DOMAIN contacts) > 2
    /\ Len(res.body.data) = 1
    /\ Len(res.queries[2].params) = 3

\* C8, as claimed: in production a DELETE whose X-API-Key is not a configured
\* admin key, a DELETE without the header included, is answered 401 and hands
\* no statement to the pool.
C8_ProductionNeedsKey ==
    /\ res.op = "delete"
    /\ NODE_ENV = "production"
    /\ ADMIN_API_KEY = Undefined \/ res.req.apiKey # ADMIN_API_KEY
    => res.status = 401 /\ res.queries = <<>>

\* the id a delete request asked for, when the store reads it as an integer
deletedId == parseDigits(res.req.id)

\* C9, as claimed: once a Delete of an id was answered 404, no later request
\* makes that id resolve.
C9_NeverResolves ==
    [][res.op = "delete" /\ res.status = 404 => deletedId \notin DOMAIN contacts']_vars

\* C9, amended: an authorized Delete of an id that has no row is answered 404
\* (500 only when the store failed) and leaves the table and its sequence as
\* they were; an id a Delete removed is never issued again, so it has no row
\* ever after; every row's id was issued by the sequence, so an id not yet
\* issued is the only one a later Create can make resolve.
C9_DeletedStaysGone ==
    /\ [][/\ res' # res
          /\ res'.op = "delete"
          /\ res'.status # 401
          /\ isInteger(res'.req.id)
          /\ parseDigits(res'.req.id) \notin DOMAIN contacts
          => /\ res'.status = 404 \/ res'.caught = Some(ConnectionLost)
             /\ contacts' = contacts
             /\ nextId' = nextId]_vars
    /\ [](/\ deleted \cap DOMAIN contacts = {}
          /\ \A i \in deleted \cup DOMAIN contacts : i < nextId)

\* a deleted id was deleted again, after a later Create had stored a new row
C9_Witness ==
    /\ res.op = "delete"
    /\ res.status = 404
    /\ deletedId \in deleted
    /\ \E i \in DOMAIN contacts : i > deletedId

\* C10: when the INSERT of a validated Create fails, the answer is 409 for a
\* uniqueness violation (code 23505) and 500 for every other store error, no
\* row is added, and the 500 body carries the store's message only in
\* development mode; a Create is answered 409 or 500 in no other case.
C10_InsertFailure ==
    [][res' # res /\ res'.op = "create" =>
          IF res'.caught # Undefined
          THEN /\ contacts' = contacts
               /\ res'.queries # <<>>
               /\ IF res'.caught[1].code = "23505"
                  THEN /\ res'.status = 409
                       /\ res'.body = [error |-> "Duplicate submission detected"]
                  ELSE /\ res'.status = 500
                       /\ res'.body.error = "Failed to save contact"
                       /\ res'.body.details = IF NODE_ENV = "development"
                                              THEN Some(res'.caught[1].message)
                                              ELSE Undefined
          ELSE res'.status \in {201, 400}]_vars

\* in production an address too long for its column was answered 500 without
\* the store's message
C10_Witness ==
    /\ res.op = "create"
    /\ res.status = 500
    /\ res.caught = Some(TooLong)
    /\ NODE_ENV = "production"
    /\ res.body.details = Undefined
    /\ contacts = EmptyTable

\* the error texts the server sends
ErrorTexts ==
    {"Validation failed", "Duplicate submission detected", "Failed to save contact",
     "Failed to fetch contacts", "Failed to fetch contact", "Contact not found",
     "Unauthorized", "Failed to delete contact", "Failed to fetch metrics",
     "Internal server error", "Endpoint not found",
     "Too many requests, please try again later."}

\* the body is an error envelope: {error: string, details?: any}
isEnvelope(body) ==
    /\ "error" \in DOMAIN body
    /\ body.error \in ErrorTexts
    /\ DOMAIN body \subseteq {"error", "details"}

\* C11, as claimed: every response of status 400 or above, the 503 of the
\* health check included, is an object with a string error field.
C11_EveryErrorHasError ==
    res.status >= 400 => isEnvelope(res.body)

\* C11, amended: every response of status 400 or above is an error envelope
\* with a string error field, except the 503 of the health check, whose body is
\* the health object (status 'unhealthy', checks.database 'unhealthy',
\* databaseError the store's message in every mode) and carries no error
\* field; and a list request, the one route that awaits more than one query,
\* is answered once, when its await ends.
C11_ErrorEnvelope ==
    /\ [](res.status >= 400 =>
              IF res.op = "health"
              THEN /\ res.status = 503
                   /\ "error" \notin DOMAIN res.body
                   /\ res.body.status = "unhealthy"
                   /\ res.body.checks.database = "unhealthy"
                   /\ res.body.databaseError = res.caught[1].message
              ELSE isEnvelope(res.body))
    /\ [](res.op = "health" /\ res.status < 400 =>
              res.status = 200 /\ res.body.status = "healthy" /\ res.caught = Undefined)
    /\ [][list.pc = "await" /\ list'.pc = "idle" =>
              res'.op = "list" /\ res'.req = list.req]_vars
    /\ [][res' # res /\ res'.op = "list" => list.pc = "await" /\ list'.pc = "idle"]_vars

\* the health check answered 503 for a store that failed its SELECT 1
C11_Witness ==
    /\ res.op = "health"
    /\ res.status = 503
    /\ res.caught = Some(ConnectionLost)
    /\ res.body.databaseError = ConnectionLost.message

\* C12, as claimed: in every row the metrics route returns, total_contacts is
\* the number of all stored contacts and unique_emails the number of distinct
\* emails among them.
C12_TotalsOverAll ==
    res.op = "metrics" /\ res.status = 200 =>
        \A k \in 1..Len(res.body.data) :
            /\ res.body.data[k].total_contacts = Cardinality(DOMAIN contacts)
            /\ res.body.data[k].unique_emails =
                   Cardinality({contacts[i].email : i \in DOMAIN contacts})

\* C13: retries never exceeds maxRetries = 5; createPool is re-invoked once per
\* retry counted and so at most 5 times, whichever pool the 'error' events
\* come from; every timeout is scheduled with the same 5000 ms; each retry
\* counted is eventually followed by its new pool; and no handler hands a
\* failed query to the pool a second time.
C13_BoundedReconnect ==
    /\ [](/\ retries <= maxRetries /\ retries <= 5
          /\ pools + Len(timers) = 1 + retries
          /\ pools <= 1 + 5
          /\ \A k \in 1..Len(timers) : timers[k] = 5000
          /\ res.caught # Undefined => Len(res.queries) = 1)
    /\ [][retries' # retries =>
              retries < 5 /\ retries' = retries + 1 /\ Len(timers') = Len(timers) + 1]_vars
    /\ [][pools' # pools => pools' = pools + 1 /\ Len(timers') = Len(timers) - 1]_vars
    /\ \A n \in 1..5 : (retries = n) ~> (pools >= n + 1)

\* the fifth retry was counted, every timeout has fired, and a request failed
\* on the store
C13_Witness ==
    /\ retries = 5
    /\ pools = 6
    /\ timers = <<>>
    /\ res.caught = Some(ConnectionLost)

\* C14, as claimed: a list response is consistent with one state of the store,
\* so on page 1 the number of rows returned is min(limit, total).
C14_OneSnapshot ==
    res.op = "list" /\ res.status = 200 /\ askedPage = 1 =>
        Len(res.body.data) = Min({askedLimit, res.body.pagination.total})

\* C15: at most one POST is in flight; a submit event received while
\* state.submitting is true sends nothing; state.submitting is true, and the
\* button disabled, exactly while a submission is between its fetch and the
\* end of handleSubmit; and every submission started is followed by
\* submitting false and the button enabled, whether the fetch resolves ok,
\* resolves not ok, or rejects, or the body fails to parse.
C15_OneSubmission ==
    /\ [](/\ Cardinality(fetching.pending) <= 1
          /\ state.submitting <=> fetching.pending # {}
          /\ dom.disabled <=> state.submitting)
    /\ [][state.submitting => fetching'.sent = fetching.sent]_vars
    /\ [][fetching'.sent # fetching.sent =>
              /\ fetching'.sent = fetching.sent + 1
              /\ validateForm(dom)
              /\ state'.submitting /\ dom'.disabled]_vars
    /\ state.submitting ~> (~state.submitting /\ ~dom.disabled)

\* a second submission is in flight after the first one succeeded
C15_Witness ==
    /\ state.submitting
    /\ state.success
    /\ fetching.sent = 2
    /\ \E f \in fetching.pending : f.id = 2 /\ f.stage = "json"
    /\ dom.disabled

====
